---- MODULE Spec2Model ----
(***************************************************************************)
(* Model of src/index.ts: env(variables, options), the environment loader  *)
(* of @maxifjaved/elysia-env.  One invocation of env() is a sequential     *)
(* process whose position is pc; the TypeBox calls it makes (Value.Parse,  *)
(* Value.Check, Value.Errors) are modelled by operators that follow the    *)
(* library's object, Number and String visitors.                           *)
(*                                                                         *)
(* JavaScript values are records [k, s, n]: k is the typeof tag, s the     *)
(* characters of a string, n the magnitude of a number (or 0/1 for a       *)
(* boolean).  A plain object is a function from property keys (sequences   *)
(* of characters) to values.  The Raw Source is modelled as a plain        *)
(* object, as given through options.source.                                *)
(***************************************************************************)
EXTENDS Integers, Sequences, FiniteSets, TLC

VARIABLES
    pc,              \* position of the invocation of env()
    source,          \* the Raw Source object (options.source or process.env)
    source0,         \* the Raw Source's entries when env() was entered
    schema,          \* t.Object(variables): ordered fields [name, desc]
    options,         \* the options argument: [prefix, onError, onSuccess]
    aliased,         \* TRUE iff processedSource is the same object as source
    processedSource, \* the Filtered Source
    processed,       \* the candidate mapping returned by Value.Parse
    stages,          \* the stages Value.Parse ran, in order
    checked,         \* result of Value.Check: "none", "pass" or "fail"
    valueErrors,     \* [...Value.Errors(schema, processed)]
    errors,          \* the Error Report: ordered entries [key, msg]
    console,         \* diagnostics emitted by this invocation, in order
    calls,           \* callbacks invoked by this invocation, in order
    decorator,       \* what is attached to the plugin: [has, env]
    exitStatus,      \* -1 while the process runs, else the exit status
    previous         \* outcome of the invocation before this one, when recorded

vars == <<pc, source, source0, schema, options, aliased, processedSource,
          processed, stages, checked, valueErrors, errors, console, calls,
          decorator, exitStatus, previous>>

(***************************************************************************)
(* Bound of the explored inputs: the number of entries of the Raw Source.  *)
(***************************************************************************)
MaxSourceSize == 2

(***************************************************************************)
(* JavaScript values.                                                      *)
(***************************************************************************)
Str(s) == [k |-> "string", s |-> s, n |-> 0]
Num(n) == [k |-> "number", s |-> <<>>, n |-> n]
Bool(b) == [k |-> "boolean", s |-> <<>>, n |-> IF b THEN 1 ELSE 0]
Undefined == [k |-> "undefined", s |-> <<>>, n |-> 0]

EmptyObject == [key \in {} |-> Undefined]

Get(obj, key) == IF key \in DOMAIN obj THEN obj[key] ELSE Undefined

Put(obj, key, val) ==
    [p \in (DOMAIN obj) \cup {key} |-> IF p = key THEN val ELSE obj[p]]

DigitValue == ("0" :> 0) @@ ("1" :> 1) @@ ("2" :> 2) @@ ("3" :> 3) @@ ("4" :> 4)
              @@ ("5" :> 5) @@ ("6" :> 6) @@ ("7" :> 7) @@ ("8" :> 8) @@ ("9" :> 9)

DigitChar == <<"0", "1", "2", "3", "4", "5", "6", "7", "8", "9">>

\* parseFloat on a string of decimal digits
RECURSIVE ParseFloat(_)
ParseFloat(s) ==
    IF s = <<>> THEN 0
    ELSE 10 * ParseFloat(SubSeq(s, 1, Len(s) - 1)) + DigitValue[s[Len(s)]]

\* Number.prototype.toString on a non-negative integer
RECURSIVE NumberToString(_)
NumberToString(n) ==
    IF n < 10 THEN <<DigitChar[n + 1]>>
    ELSE NumberToString(n \div 10) \o <<DigitChar[(n % 10) + 1]>>

\* !isNaN(value) && !isNaN(parseFloat(value)) on the strings of the model
IsStringNumeric(v) ==
    /\ v.k = "string"
    /\ v.s # <<>>
    /\ \A i \in 1..Len(v.s) : v.s[i] \in DOMAIN DigitValue

IsValueTrue(v) ==
    \/ v.k = "boolean" /\ v.n = 1
    \/ v.k = "number" /\ v.n = 1
    \/ v.k = "string" /\ v.s \in {<<"t", "r", "u", "e">>, <<"1">>}

IsValueFalse(v) ==
    \/ v.k = "boolean" /\ v.n = 0
    \/ v.k = "number" /\ v.n = 0
    \/ v.k = "string" /\ v.s \in {<<"f", "a", "l", "s", "e">>, <<"0">>}

TryConvertNumber(v) ==
    IF IsStringNumeric(v) THEN Num(ParseFloat(v.s))
    ELSE IF IsValueTrue(v) THEN Num(1)
    ELSE IF IsValueFalse(v) THEN Num(0)
    ELSE v

TryConvertString(v) ==
    IF v.k = "number" THEN Str(NumberToString(v.n))
    ELSE IF v.k = "boolean"
         THEN Str(IF v.n = 1 THEN <<"t", "r", "u", "e">>
                  ELSE <<"f", "a", "l", "s", "e">>)
    ELSE v

(***************************************************************************)
(* Type descriptors and schemas.                                           *)
(***************************************************************************)
\* t.String({ minLength: 2 }) and t.Number({ default: 3000 })
TString == [type |-> "String", hasDefault |-> FALSE, default |-> Undefined,
            minLength |-> 2]
TNumber == [type |-> "Number", hasDefault |-> TRUE, default |-> Num(3000),
            minLength |-> 0]

Descriptors == {TString, TNumber}

\* Variable names a schema declares, the empty name among them.
Names == {<<>>, <<"A">>}

\* Keys of the Raw Source: a name, with or without a prefix in either case.
Keys == {<<>>, <<"A">>, <<"a">>, <<"A", "A">>, <<"A", "a">>, <<"a", "A">>,
         <<"a", "a">>}

SourceValues == {Str(<<"4", "2">>), Str(<<"a">>)}

FieldNames(sch) == {sch[i].name : i \in 1..Len(sch)}

\* Non-empty schemas: each name at most once, in either order.
Schemas ==
    {sch \in UNION {[1..n -> [name : Names, desc : Descriptors]] :
                        n \in 1..Cardinality(Names)} :
        \A i, j \in 1..Len(sch) : sch[i].name = sch[j].name => i = j}

Sources ==
    UNION {[D -> SourceValues] :
              D \in {K \in SUBSET Keys : Cardinality(K) <= MaxSourceSize}}

(***************************************************************************)
(* The validation capability (TypeBox's Value), as env() uses it.          *)
(***************************************************************************)
\* Value.Clean on an object schema: deletes every own property of the value
\* that the schema does not declare.
Clean(sch, value) ==
    [p \in (DOMAIN value) \cap FieldNames(sch) |-> value[p]]

\* ValueOrDefault of a field: the declared default replaces undefined.
ValueOrDefault(desc, v) ==
    IF v.k = "undefined" /\ desc.hasDefault THEN desc.default ELSE v

\* Value.Default on an object schema: visits the declared fields in order and
\* assigns every field whose defaulted value is not undefined.
RECURSIVE DefaultFrom(_, _, _)
DefaultFrom(sch, value, i) ==
    IF i > Len(sch) THEN value
    ELSE LET v == ValueOrDefault(sch[i].desc, Get(value, sch[i].name))
         IN  DefaultFrom(sch,
                         IF v.k = "undefined" THEN value
                         ELSE Put(value, sch[i].name, v),
                         i + 1)

Default(sch, value) == DefaultFrom(sch, value, 1)

\* The 'Decode' stage runs the schema's Transform codecs and hands back the
\* value itself when the schema holds none; t.String and t.Number hold none.
Decode(sch, value) == value

ConvertField(desc, v) ==
    IF desc.type = "Number" THEN TryConvertNumber(v)
    ELSE IF desc.type = "String" THEN TryConvertString(v)
    ELSE v

\* Value.Convert on an object schema: converts every declared field the value
\* has.
RECURSIVE ConvertFrom(_, _, _)
ConvertFrom(sch, value, i) ==
    IF i > Len(sch) THEN value
    ELSE ConvertFrom(sch,
                     IF sch[i].name \in DOMAIN value
                     THEN Put(value, sch[i].name,
                              ConvertField(sch[i].desc, value[sch[i].name]))
                     ELSE value,
                     i + 1)

Convert(sch, value) == ConvertFrom(sch, value, 1)

ParseStage(op, sch, value) ==
    IF op = "Clean" THEN Clean(sch, value)
    ELSE IF op = "Default" THEN Default(sch, value)
    ELSE IF op = "Decode" THEN Decode(sch, value)
    ELSE IF op = "Convert" THEN Convert(sch, value)
    ELSE value

\* Value.Parse(operations, schema, value): runs the named stages in the order
\* of the list, each on the result of the one before.  Yields the final value
\* and the stages run.  Every stage writes into the object it is given, so the
\* final value is that same object.
RECURSIVE ParseFrom(_, _, _, _)
ParseFrom(operations, sch, acc, i) ==
    IF i > Len(operations) THEN acc
    ELSE ParseFrom(operations, sch,
                   [value |-> ParseStage(operations[i], sch, acc.value),
                    ran |-> Append(acc.ran, operations[i])],
                   i + 1)

Parse(operations, sch, value) ==
    ParseFrom(operations, sch, [value |-> value, ran |-> <<>>], 1)

CheckField(desc, v) ==
    IF desc.type = "Number" THEN v.k = "number"
    ELSE /\ v.k = "string"
         /\ Len(v.s) >= desc.minLength

\* Value.Check on an object schema: every declared field is required.
Check(sch, value) ==
    \A i \in 1..Len(sch) :
        /\ sch[i].name \in DOMAIN value
        /\ CheckField(sch[i].desc, value[sch[i].name])

\* EscapeKey of a property name in an error path
RECURSIVE EscapeKey(_)
EscapeKey(key) ==
    IF key = <<>> THEN <<>>
    ELSE (IF Head(key) = "~" THEN <<"~", "0">>
          ELSE IF Head(key) = "/" THEN <<"~", "1">>
          ELSE <<Head(key)>>) \o EscapeKey(Tail(key))

PathOf(name) == <<"/">> \o EscapeKey(name)

FieldErrors(desc, path, v) ==
    IF desc.type = "Number"
    THEN IF v.k = "number" THEN <<>>
         ELSE <<[path |-> path, message |-> "Expected number"]>>
    ELSE IF v.k # "string"
         THEN <<[path |-> path, message |-> "Expected string"]>>
         ELSE IF Len(v.s) >= desc.minLength THEN <<>>
              ELSE <<[path |-> path,
                      message |-> "Expected string length greater or equal to "
                                  \o ToString(desc.minLength)]>>

RECURSIVE RequiredErrors(_, _, _)
RequiredErrors(sch, value, i) ==
    IF i > Len(sch) THEN <<>>
    ELSE (IF sch[i].name \in DOMAIN value THEN <<>>
          ELSE <<[path |-> PathOf(sch[i].name),
                  message |-> "Expected required property"]>>)
         \o RequiredErrors(sch, value, i + 1)

RECURSIVE KnownErrors(_, _, _)
KnownErrors(sch, value, i) ==
    IF i > Len(sch) THEN <<>>
    ELSE FieldErrors(sch[i].desc, PathOf(sch[i].name), Get(value, sch[i].name))
         \o KnownErrors(sch, value, i + 1)

\* Value.Errors on an object schema: first one record per missing required
\* property, then the records of each declared field in order.
Errors(sch, value) ==
    RequiredErrors(sch, value, 1) \o KnownErrors(sch, value, 1)

(***************************************************************************)
(* Options.                                                                *)
(***************************************************************************)
NoPrefix == [given |-> FALSE, str |-> <<>>]

PrefixOptions ==
    {NoPrefix} \cup {[given |-> TRUE, str |-> s] : s \in {<<>>, <<"A">>, <<"a">>}}

OnErrorAbsent == [kind |-> "undefined", mode |-> "", throws |-> FALSE]

OnErrorMode(m) == [kind |-> "string", mode |-> m, throws |-> FALSE]

OnErrorFunction(throws) == [kind |-> "function", mode |-> "", throws |-> throws]

\* "verbose" stands for a string that names no policy
OnErrorOptions ==
    {OnErrorAbsent} \cup {OnErrorMode(m) : m \in {"exit", "warn", "silent", "verbose"}}
    \cup {OnErrorFunction(b) : b \in BOOLEAN}

OptionsSet ==
    [prefix : PrefixOptions, onError : OnErrorOptions, onSuccess : BOOLEAN]

NoOptions == [prefix |-> NoPrefix, onError |-> OnErrorAbsent, onSuccess |-> FALSE]

\* onError = "exit" when the option is absent
OnError == IF options.onError.kind = "undefined" THEN OnErrorMode("exit")
           ELSE options.onError

(***************************************************************************)
(* The pure parts of env().                                                *)
(***************************************************************************)
\* Variant of ParseOperations: conversion runs before the defaults are filled.
ParseOperationsConvertFirst == <<"Clean", "Convert", "Decode", "Default">>

ParseOperations == <<"Clean", "Default", "Decode", "Convert">>

Lower(c) == IF c = "A" THEN "a" ELSE c

\* Variant of StartsWith: the comparison ignores case.
StartsWithIgnoreCase(key, p) ==
    /\ Len(key) >= Len(p)
    /\ \A i \in 1..Len(p) : Lower(key[i]) = Lower(p[i])

StartsWith(key, p) == Len(key) >= Len(p) /\ SubSeq(key, 1, Len(p)) = p

Substring(key, from) == SubSeq(key, from + 1, Len(key))

\* if (prefix): absent and the empty string are both falsy
PrefixApplies(pfx) == pfx.given /\ pfx.str # <<>>

\* key.replaceAll(prefix, "")
RECURSIVE RemoveAll(_, _)
RemoveAll(key, p) ==
    IF key = <<>> THEN <<>>
    ELSE IF StartsWith(key, p) THEN RemoveAll(Substring(key, Len(p)), p)
    ELSE <<Head(key)>> \o RemoveAll(Tail(key), p)

\* Variant of PrefixReducer: every occurrence of the prefix is removed from
\* a retained key, not only the leading one.
PrefixReducerReplaceAll(acc, key, value, p) ==
    IF StartsWith(key, p) THEN Put(acc, RemoveAll(key, p), value) ELSE acc

\* the reducer of the prefix filter
PrefixReducer(acc, key, value, p) ==
    IF StartsWith(key, p) THEN Put(acc, Substring(key, Len(p)), value) ELSE acc

RECURSIVE ReduceEntries(_, _, _, _)
ReduceEntries(obj, todo, acc, p) ==
    IF todo = {} THEN acc
    ELSE LET key == CHOOSE q \in todo : TRUE
         IN  ReduceEntries(obj, todo \ {key}, PrefixReducer(acc, key, obj[key], p), p)

\* Object.entries(source).reduce(..., {})
FilterByPrefix(src, p) == ReduceEntries(src, DOMAIN src, EmptyObject, p)

\* The orders in which Object.entries can list the keys of an object.
EntryOrders(obj) ==
    {o \in [1..Cardinality(DOMAIN obj) -> DOMAIN obj] :
        \A i, j \in 1..Cardinality(DOMAIN obj) : o[i] = o[j] => i = j}

\* The accumulator of the reduce after the first n entries of a given order.
RECURSIVE ReduceInOrder(_, _, _, _)
ReduceInOrder(obj, order, n, p) ==
    IF n = 0 THEN EmptyObject
    ELSE PrefixReducer(ReduceInOrder(obj, order, n - 1, p), order[n],
                       obj[order[n]], p)

Root == <<"r", "o", "o", "t">>

\* e.path.substring(1) || "root"
NormalizePath(path) ==
    IF Substring(path, 1) = <<>> THEN Root ELSE Substring(path, 1)

HasKey(acc, key) == \E i \in 1..Len(acc) : acc[i].key = key

\* Variant of Assign: a key already present keeps its first message.
AssignFirstWins(acc, key, msg) ==
    IF HasKey(acc, key) THEN acc ELSE Append(acc, [key |-> key, msg |-> msg])

\* acc[path] = e.message on an object that keeps insertion order
Assign(acc, key, msg) ==
    IF HasKey(acc, key)
    THEN [i \in 1..Len(acc) |->
             IF acc[i].key = key THEN [key |-> key, msg |-> msg] ELSE acc[i]]
    ELSE Append(acc, [key |-> key, msg |-> msg])

ErrorsReducer(acc, e) == Assign(acc, NormalizePath(e.path), e.message)

RECURSIVE ReduceErrors(_, _, _)
ReduceErrors(list, acc, i) ==
    IF i > Len(list) THEN acc
    ELSE ReduceErrors(list, ErrorsReducer(acc, list[i]), i + 1)

\* [...Value.Errors(schema, processed)].reduce(..., {})
ErrorReport(list) == ReduceErrors(list, <<>>, 1)

\* Object.entries(errors).map(([key, msg]) => `  - ${key}: ${msg}`).join("\n"),
\* kept as the sequence of its lines
ErrorLine(entry) == <<"  - ", entry.key, ": ", entry.msg>>

ErrorMessage(errs) == [i \in 1..Len(errs) |-> ErrorLine(errs[i])]

Diagnostic(level, errs) ==
    [level |-> level, head |-> "Invalid environment variables:",
     body |-> ErrorMessage(errs)]

NoDecorator == [has |-> FALSE, env |-> EmptyObject]

NoPrevious == [has |-> FALSE, pc |-> "idle", checked |-> "none", errors |-> <<>>,
               processed |-> EmptyObject, decorator |-> NoDecorator]

OnSuccessCall(env) == [fn |-> "onSuccess", env |-> env, errors |-> <<>>]

OnErrorCall(errs) == [fn |-> "onError", env |-> EmptyObject, errors |-> errs]

\* onSuccess?.(processed)
SuccessCalls(given, env) == IF given THEN <<OnSuccessCall(env)>> ELSE <<>>

(***************************************************************************)
(* The invocation of env(), step by step.                                  *)
(***************************************************************************)
Init ==
    /\ pc = "idle"
    /\ source \in Sources
    /\ source0 = source
    /\ schema = <<>>
    /\ options = NoOptions
    /\ aliased = FALSE
    /\ processedSource = EmptyObject
    /\ processed = EmptyObject
    /\ stages = <<>>
    /\ checked = "none"
    /\ valueErrors = <<>>
    /\ errors = <<>>
    /\ console = <<>>
    /\ calls = <<>>
    /\ decorator = NoDecorator
    /\ exitStatus = -1
    /\ previous = NoPrevious

\* Variant of Enter: the prefix filter renames the keys of the Raw Source
\* itself instead of filling a new object.
EnterFilterInPlace(opts) ==
    /\ pc' = "parse"
    /\ source0' = source
    /\ IF PrefixApplies(opts.prefix)
       THEN /\ processedSource' = FilterByPrefix(source, opts.prefix.str)
            /\ source' = FilterByPrefix(source, opts.prefix.str)
       ELSE /\ processedSource' = source
            /\ source' = source
    /\ aliased' = TRUE
    /\ processed' = EmptyObject
    /\ stages' = <<>>
    /\ checked' = "none"
    /\ valueErrors' = <<>>
    /\ errors' = <<>>
    /\ console' = <<>>
    /\ calls' = <<>>
    /\ decorator' = NoDecorator
    /\ UNCHANGED exitStatus

\* Entry of env(): everything one invocation computes starts empty, and the
\* prefix filter yields processedSource, the Raw Source itself when no prefix
\* applies.
Enter(opts) ==
    /\ pc' = "parse"
    /\ source0' = source
    /\ IF PrefixApplies(opts.prefix)
       THEN /\ processedSource' = FilterByPrefix(source, opts.prefix.str)
            /\ aliased' = FALSE
       ELSE /\ processedSource' = source
            /\ aliased' = TRUE
    /\ processed' = EmptyObject
    /\ stages' = <<>>
    /\ checked' = "none"
    /\ valueErrors' = <<>>
    /\ errors' = <<>>
    /\ console' = <<>>
    /\ calls' = <<>>
    /\ decorator' = NoDecorator
    /\ UNCHANGED <<source, exitStatus>>

\* env(variables, options) is called
Call(sch, opts) ==
    /\ pc = "idle"
    /\ schema' = sch
    /\ options' = opts
    /\ UNCHANGED previous
    /\ Enter(opts)

\* env() is called once more with the same schema and options
CallAgain ==
    /\ pc \in {"returned", "thrown"}
    /\ UNCHANGED <<schema, options, previous>>
    /\ Enter(options)

\* The same second call, with the outcome of the finished invocation kept for
\* comparison: how it ended, the branch it took, its Error Report, its
\* candidate mapping and what it attached.
SecondCall ==
    /\ pc \in {"returned", "thrown"}
    /\ previous' = [has |-> TRUE, pc |-> pc, checked |-> checked,
                    errors |-> errors, processed |-> processed,
                    decorator |-> decorator]
    /\ UNCHANGED <<schema, options>>
    /\ Enter(options)

\* Value.Parse(['Clean', 'Default', 'Decode', 'Convert'], schema, processedSource):
\* the stages write into processedSource, which is the Raw Source itself when
\* no prefix filter made a new object.
ParseStep ==
    /\ pc = "parse"
    /\ LET r == Parse(ParseOperations, schema, processedSource)
       IN  /\ processed' = r.value
           /\ processedSource' = r.value
           /\ source' = IF aliased THEN r.value ELSE source
           /\ stages' = stages \o r.ran
    /\ pc' = "check"
    /\ UNCHANGED <<previous, source0, schema, options, aliased, checked, valueErrors,
                   errors, console, calls, decorator, exitStatus>>

\* if (!Value.Check(schema, processed)) { const errors = ... }
CheckStep ==
    /\ pc = "check"
    /\ IF Check(schema, processed)
       THEN /\ checked' = "pass"
            /\ pc' = "success"
            /\ UNCHANGED <<valueErrors, errors>>
       ELSE /\ checked' = "fail"
            /\ valueErrors' = Errors(schema, processed)
            /\ errors' = ErrorReport(Errors(schema, processed))
            /\ pc' = "dispatch"
    /\ UNCHANGED <<previous, source, source0, schema, options, aliased, processedSource,
                   processed, stages, console, calls, decorator, exitStatus>>

\* onSuccess?.(processed)
Success ==
    /\ pc = "success"
    /\ calls' = calls \o SuccessCalls(options.onSuccess, processed)
    /\ pc' = "decorate"
    /\ UNCHANGED <<previous, source, source0, schema, options, aliased, processedSource,
                   processed, stages, checked, valueErrors, errors, console,
                   decorator, exitStatus>>

\* Variant of DispatchFunction: the success callback runs after the error
\* handler returned.
DispatchFunctionThenSuccess ==
    /\ pc = "dispatch"
    /\ OnError.kind = "function"
    /\ calls' = IF OnError.throws THEN Append(calls, OnErrorCall(errors))
                ELSE Append(calls, OnErrorCall(errors))
                     \o SuccessCalls(options.onSuccess, processed)
    /\ pc' = IF OnError.throws THEN "thrown" ELSE "decorate"
    /\ UNCHANGED <<previous, source, source0, schema, options, aliased, processedSource,
                   processed, stages, checked, valueErrors, errors, console,
                   decorator, exitStatus>>

\* Variant of DispatchFunction: the handler is not called.
DispatchFunctionSkipped ==
    /\ pc = "dispatch"
    /\ OnError.kind = "function"
    /\ pc' = "decorate"
    /\ UNCHANGED <<previous, source, source0, schema, options, aliased, processedSource,
                   processed, stages, checked, valueErrors, errors, console,
                   calls, decorator, exitStatus>>

\* Variant of DispatchFunction: a failure of the handler is caught.
DispatchFunctionSwallows ==
    /\ pc = "dispatch"
    /\ OnError.kind = "function"
    /\ calls' = Append(calls, OnErrorCall(errors))
    /\ pc' = "decorate"
    /\ UNCHANGED <<previous, source, source0, schema, options, aliased, processedSource,
                   processed, stages, checked, valueErrors, errors, console,
                   decorator, exitStatus>>

\* typeof onError === "function": onError(errors), which returns or throws
DispatchFunction ==
    /\ pc = "dispatch"
    /\ OnError.kind = "function"
    /\ calls' = Append(calls, OnErrorCall(errors))
    /\ pc' = IF OnError.throws THEN "thrown" ELSE "decorate"
    /\ UNCHANGED <<previous, source, source0, schema, options, aliased, processedSource,
                   processed, stages, checked, valueErrors, errors, console,
                   decorator, exitStatus>>

\* case "exit": console.error(...)
DispatchExit ==
    /\ pc = "dispatch"
    /\ OnError.kind = "string" /\ OnError.mode = "exit"
    /\ console' = Append(console, Diagnostic("error", errors))
    /\ pc' = "exit"
    /\ UNCHANGED <<previous, source, source0, schema, options, aliased, processedSource,
                   processed, stages, checked, valueErrors, errors, calls,
                   decorator, exitStatus>>

\* Variant of ProcessExit: control falls through to the code after the switch.
ProcessExitReturns ==
    /\ pc = "exit"
    /\ exitStatus' = 1
    /\ pc' = "decorate"
    /\ UNCHANGED <<previous, source, source0, schema, options, aliased, processedSource,
                   processed, stages, checked, valueErrors, errors, console,
                   calls, decorator>>

\* process.exit(1)
ProcessExit ==
    /\ pc = "exit"
    /\ exitStatus' = 1
    /\ pc' = "exited"
    /\ UNCHANGED <<previous, source, source0, schema, options, aliased, processedSource,
                   processed, stages, checked, valueErrors, errors, console,
                   calls, decorator>>

\* Variant of DispatchWarn: only the first entry of the report is printed.
DispatchWarnFirstOnly ==
    /\ pc = "dispatch"
    /\ OnError.kind = "string" /\ OnError.mode = "warn"
    /\ console' = Append(console, Diagnostic("warn", SubSeq(errors, 1, 1)))
    /\ pc' = "decorate"
    /\ UNCHANGED <<previous, source, source0, schema, options, aliased, processedSource,
                   processed, stages, checked, valueErrors, errors, calls,
                   decorator, exitStatus>>

\* case "warn": console.warn(...); break
DispatchWarn ==
    /\ pc = "dispatch"
    /\ OnError.kind = "string" /\ OnError.mode = "warn"
    /\ console' = Append(console, Diagnostic("warn", errors))
    /\ pc' = "decorate"
    /\ UNCHANGED <<previous, source, source0, schema, options, aliased, processedSource,
                   processed, stages, checked, valueErrors, errors, calls,
                   decorator, exitStatus>>

\* case "silent": break
DispatchSilent ==
    /\ pc = "dispatch"
    /\ OnError.kind = "string" /\ OnError.mode = "silent"
    /\ pc' = "decorate"
    /\ UNCHANGED <<previous, source, source0, schema, options, aliased, processedSource,
                   processed, stages, checked, valueErrors, errors, console,
                   calls, decorator, exitStatus>>

\* Variant of DispatchOther: an unrecognized policy is rejected.
DispatchOtherRejects ==
    /\ pc = "dispatch"
    /\ OnError.kind = "string" /\ OnError.mode \notin {"exit", "warn", "silent"}
    /\ pc' = "thrown"
    /\ UNCHANGED <<previous, source, source0, schema, options, aliased,
                   processedSource, processed, stages, checked, valueErrors,
                   errors, console, calls, decorator, exitStatus>>

\* no case of the switch matches
DispatchOther ==
    /\ pc = "dispatch"
    /\ OnError.kind = "string" /\ OnError.mode \notin {"exit", "warn", "silent"}
    /\ pc' = "decorate"
    /\ UNCHANGED <<previous, source, source0, schema, options, aliased, processedSource,
                   processed, stages, checked, valueErrors, errors, console,
                   calls, decorator, exitStatus>>

\* Variant of Decorate: a mapping that failed the check is not attached.
DecorateOnlyValid ==
    /\ pc = "decorate"
    /\ decorator' = [has |-> TRUE,
                     env |-> IF checked = "pass" THEN processed ELSE EmptyObject]
    /\ pc' = "returned"
    /\ UNCHANGED <<previous, source, source0, schema, options, aliased, processedSource,
                   processed, stages, checked, valueErrors, errors, console,
                   calls, exitStatus>>

\* return new Elysia({ name: "env" }).decorate("env", processed)
Decorate ==
    /\ pc = "decorate"
    /\ decorator' = [has |-> TRUE, env |-> processed]
    /\ pc' = "returned"
    /\ UNCHANGED <<previous, source, source0, schema, options, aliased, processedSource,
                   processed, stages, checked, valueErrors, errors, console,
                   calls, exitStatus>>

Next ==
    \/ \E sch \in Schemas, opts \in OptionsSet : Call(sch, opts)
    \/ CallAgain
    \/ ParseStep
    \/ CheckStep
    \/ Success
    \/ DispatchFunction
    \/ DispatchExit
    \/ ProcessExit
    \/ DispatchWarn
    \/ DispatchSilent
    \/ DispatchOther
    \/ Decorate

Spec == Init /\ [][Next]_vars

\* The same program, with every repeated call keeping the outcome of the
\* invocation before it.
NextTwice ==
    \/ \E sch \in Schemas, opts \in OptionsSet : Call(sch, opts)
    \/ SecondCall
    \/ ParseStep
    \/ CheckStep
    \/ Success
    \/ DispatchFunction
    \/ DispatchExit
    \/ ProcessExit
    \/ DispatchWarn
    \/ DispatchSilent
    \/ DispatchOther
    \/ Decorate

SpecTwice == Init /\ [][NextTwice]_vars

(***************************************************************************)
(* Properties.                                                             *)
(***************************************************************************)
IsExit == OnError.kind = "string" /\ OnError.mode = "exit"
IsWarn == OnError.kind = "string" /\ OnError.mode = "warn"
IsSilent == OnError.kind = "string" /\ OnError.mode = "silent"
IsFunction == OnError.kind = "function"

CallsOf(fn) == SelectSeq(calls, LAMBDA c : c.fn = fn)

\* The Filtered Source of the running invocation, from the Raw Source as it
\* was on entry.
Filtered0 ==
    IF options.prefix.given /\ options.prefix.str # <<>>
    THEN FilterByPrefix(source0, options.prefix.str)
    ELSE source0

\* The invocation has passed the conformance check / its dispatch.
PastCheck == pc \in {"success", "dispatch", "exit", "exited", "decorate",
                     "returned", "thrown"}
PastDispatch == pc \in {"exit", "exited", "decorate", "returned", "thrown"}

\* C1: one invocation of env() invokes onSuccess exactly once, with the
\* candidate mapping, if the candidate mapping passes the conformance check
\* (and the callback is provided), and never if it fails the check, whatever
\* the onError policy, a custom function included.
C1_OnSuccessExactlyOnceIffConformant ==
    /\ Len(CallsOf("onSuccess")) <= 1
    /\ (PastDispatch /\ Check(schema, processed) /\ options.onSuccess)
           => CallsOf("onSuccess") = <<OnSuccessCall(processed)>>
    /\ (PastCheck /\ ~Check(schema, processed)) => CallsOf("onSuccess") = <<>>
    /\ ~PastCheck => CallsOf("onSuccess") = <<>>

C1_Witness ==
    /\ pc = "returned"
    /\ Check(schema, processed)
    /\ Len(schema) = 2
    /\ calls = <<OnSuccessCall(processed)>>

\* C2: whenever env() returns, the unit it returns has the transform's
\* candidate mapping attached under "env"; after a failed check this is the
\* same non-conformant candidate mapping, not an empty or absent value.
C2_ReturnedUnitCarriesCandidate ==
    pc = "returned" =>
        /\ decorator.has
        /\ decorator.env = processed
        /\ decorator.env = Parse(ParseOperations, schema, Filtered0).value
        /\ checked = "fail" => ~Check(schema, decorator.env)

C2_Witness ==
    /\ pc = "returned"
    /\ checked = "fail"
    /\ decorator.has
    /\ decorator.env # EmptyObject
    /\ ~Check(schema, decorator.env)

\* C3: env() never mutates the Raw Source: the source mapping has the same
\* keys and values after the invocation as on entry.
C3_SourceNeverMutated == source = source0

\* C4: when validation fails under 'exit' (also the default), exactly one
\* diagnostic is emitted, at error level, before the process terminates with
\* status 1; after it no callback has run, nothing is attached, env() has not
\* returned; and no other path of env() terminates the process.
C4_ExitAfterOneErrorDiagnostic ==
    /\ pc = "exit" =>
           /\ console = <<Diagnostic("error", errors)>>
           /\ exitStatus = -1
    /\ exitStatus # -1 =>
           /\ exitStatus = 1
           /\ pc = "exited"
           /\ checked = "fail"
           /\ options.onError \in {OnErrorAbsent, OnErrorMode("exit")}
           /\ Len(console) = 1
           /\ console[1].level = "error"
           /\ calls = <<>>
           /\ decorator = NoDecorator
    /\ (checked = "fail" /\ PastDispatch
            /\ options.onError \in {OnErrorAbsent, OnErrorMode("exit")})
           => pc \in {"exit", "exited"}

C4_Witness ==
    /\ pc = "exited"
    /\ exitStatus = 1
    /\ options.onError = OnErrorAbsent
    /\ options.onSuccess
    /\ console = <<Diagnostic("error", errors)>>

\* The lines of a diagnostic for a report: one per entry, with the entry's
\* path and message.
LinesOf(report) ==
    [i \in 1..Len(report) |-> <<"  - ", report[i].key, ": ", report[i].msg>>]

\* C5: under 'warn' a failed validation emits exactly one diagnostic, at
\* warning level, with one line per Error Report entry (path and message),
\* the same body as 'exit' emits for that report; under 'silent' nothing is
\* emitted; neither terminates the process; a passed validation emits
\* nothing under any policy.
C5_WarnAndSilentDiagnostics ==
    /\ (checked = "fail" /\ IsWarn /\ PastDispatch) =>
           /\ Len(console) = 1
           /\ console[1].level = "warn"
           /\ console[1].body = LinesOf(errors)
           /\ Len(console[1].body) = Len(errors)
    /\ (checked = "fail" /\ IsExit /\ PastDispatch) =>
           /\ Len(console) = 1
           /\ console[1].body = LinesOf(errors)
           /\ console[1].head = Diagnostic("warn", errors).head
    /\ IsSilent => console = <<>>
    /\ (IsWarn \/ IsSilent) => exitStatus = -1
    /\ checked # "fail" => console = <<>>

C5_Witness ==
    /\ pc = "returned"
    /\ IsWarn
    /\ Len(errors) = 2
    /\ Len(console) = 1
    /\ Len(console[1].body) = 2

\* The report key of a checker path: the path without its leading slash,
\* "root" when nothing is left.
KeyOfPath(path) == IF Len(path) <= 1 THEN Root ELSE SubSeq(path, 2, Len(path))

ReportedKeys == {KeyOfPath(valueErrors[i].path) : i \in 1..Len(valueErrors)}

LastRecordFor(key) ==
    CHOOSE i \in 1..Len(valueErrors) :
        /\ KeyOfPath(valueErrors[i].path) = key
        /\ \A j \in (i + 1)..Len(valueErrors) :
               KeyOfPath(valueErrors[j].path) # key

\* C6 as stated: on a failed check every {path, message} record of the
\* checker appears in the Error Report under its path, and the report has as
\* many entries as the checker reported failures.
C6_OneEntryPerFailure ==
    checked = "fail" =>
        /\ Len(errors) = Len(valueErrors)
        /\ \A i \in 1..Len(valueErrors) :
               \E j \in 1..Len(errors) :
                   /\ errors[j].key = KeyOfPath(valueErrors[i].path)
                   /\ errors[j].msg = valueErrors[i].message

\* C6 amended: on a failed check the Error Report has exactly one entry per
\* distinct report key among the checker's records (the path without its
\* slash, "root" when empty), and the entry carries the message of the last
\* record reported for that key; earlier records for the same key are
\* overwritten.
C6_OneEntryPerFailingPath ==
    checked = "fail" =>
        /\ valueErrors = Errors(schema, processed)
        /\ valueErrors # <<>>
        /\ {errors[j].key : j \in 1..Len(errors)} = ReportedKeys
        /\ Len(errors) = Cardinality(ReportedKeys)
        /\ \A j \in 1..Len(errors) :
               errors[j].msg = valueErrors[LastRecordFor(errors[j].key)].message

C6_Witness ==
    /\ checked = "fail"
    /\ Len(valueErrors) = 3
    /\ Len(errors) = 2
    /\ \E j \in 1..Len(errors) : errors[j].key = Root

\* C7: with a non-empty prefix P the Filtered Source handed to validation is
\* exactly { k without its leading P -> v : (k -> v) in the Raw Source, k
\* starts with P, case-sensitively }; with the prefix absent or empty it has
\* exactly the Raw Source's entries.
C7_FilteredSourceExact ==
    pc = "parse" =>
        IF options.prefix.given /\ options.prefix.str # <<>>
        THEN LET P == options.prefix.str
                 kept == {k \in DOMAIN source0 :
                             \E r \in Keys : k = P \o r}
                 Strip(k) == CHOOSE r \in Keys : k = P \o r
             IN  /\ DOMAIN processedSource = {Strip(k) : k \in kept}
                 /\ \A k \in kept : processedSource[Strip(k)] = source0[k]
                 /\ Cardinality(DOMAIN processedSource) = Cardinality(kept)
        ELSE processedSource = source0

C7_Witness ==
    /\ pc = "parse"
    /\ options.prefix.given /\ options.prefix.str # <<>>
    /\ \E k \in DOMAIN source0 :
           /\ k \in FieldNames(schema)
           /\ k \notin {options.prefix.str \o r : r \in Keys}
    /\ DOMAIN processedSource = {<<"A">>}
    /\ Cardinality(DOMAIN source0) = 2

C9_CustomOnErrorOnceWithReport ==
    /\ Len(CallsOf("onError")) <= 1
    /\ (checked = "fail" /\ IsFunction /\ PastDispatch) =>
           /\ calls = <<OnErrorCall(ErrorReport(Errors(schema, processed)))>>
           /\ console = <<>>
           /\ exitStatus = -1
    /\ (checked = "fail" /\ IsFunction /\ pc \in {"dispatch", "decorate", "thrown"})
           => decorator = NoDecorator
    /\ checked # "fail" => CallsOf("onError") = <<>>

C9_Witness ==
    /\ pc = "returned"
    /\ IsFunction
    /\ decorator.has
    /\ Len(errors) = 2
    /\ calls = <<OnErrorCall(errors)>>

\* C10: if a custom onError function raises, env() lets the failure reach
\* its caller: no unit is returned, nothing is attached under "env",
\* onSuccess is not invoked, no diagnostic is emitted and the process is not
\* terminated.
C10_OnErrorFailurePropagates ==
    (checked = "fail" /\ IsFunction /\ OnError.throws /\ pc # "dispatch") =>
        /\ pc = "thrown"
        /\ decorator = NoDecorator
        /\ CallsOf("onSuccess") = <<>>
        /\ console = <<>>
        /\ exitStatus = -1

C10_Witness ==
    /\ pc = "thrown"
    /\ options.onSuccess
    /\ calls = <<OnErrorCall(errors)>>
    /\ errors # <<>>

\* C11: calling env() twice in a row with the same schema, the same options
\* and the same source mapping attaches mappings of equal content both
\* times, and both calls take the same branch: both pass, or both fail with
\* equal Error Reports.
C11_SecondCallSameOutcome ==
    (previous.has /\ pc \in {"returned", "thrown"}) =>
        /\ pc = previous.pc
        /\ checked = previous.checked
        /\ errors = previous.errors
        /\ processed = previous.processed
        /\ decorator = previous.decorator

C11_Witness ==
    /\ previous.has
    /\ pc = "returned"
    /\ aliased
    /\ checked = "fail"
    /\ decorator = previous.decorator
    /\ decorator.env # EmptyObject
    /\ \E key \in DOMAIN decorator.env : decorator.env[key].k = "number"

\* C12: prefix stripping is collision-free.  For a non-empty prefix P, two
\* distinct source keys that start with P have distinct stripped keys, so the
\* Filtered Source has exactly as many entries as the Raw Source has keys
\* starting with P (a key equal to P gives the empty key), no step of the
\* filter writes a key that is already there, and the result is the same in
\* whatever order the source entries are visited.
C12_PrefixStrippingCollisionFree ==
    (pc = "parse" /\ options.prefix.given /\ options.prefix.str # <<>>) =>
        LET P == options.prefix.str
            kept == {k \in DOMAIN source0 : \E r \in Keys : k = P \o r}
        IN  /\ \A k1, k2 \in kept :
                   k1 # k2 => Substring(k1, Len(P)) # Substring(k2, Len(P))
            /\ Cardinality(DOMAIN processedSource) = Cardinality(kept)
            /\ P \in DOMAIN source0 =>
                   /\ <<>> \in DOMAIN processedSource
                   /\ processedSource[<<>>] = source0[P]
            /\ \A order \in EntryOrders(source0) :
                   /\ ReduceInOrder(source0, order, Len(order), P) = processedSource
                   /\ \A n \in 1..Len(order) :
                          order[n] \in kept =>
                              Substring(order[n], Len(P)) \notin
                                  DOMAIN ReduceInOrder(source0, order, n - 1, P)

C12_Witness ==
    /\ pc = "parse"
    /\ options.prefix = [given |-> TRUE, str |-> <<"A">>]
    /\ DOMAIN source0 = {<<"A">>, <<"A", "A">>}
    /\ DOMAIN processedSource = {<<>>, <<"A">>}
    /\ source0[<<"A">>] # source0[<<"A", "A">>]

IsUnrecognized ==
    OnError.kind = "string" /\ OnError.mode \notin {"exit", "warn", "silent"}

\* What the caller can observe of an invocation.
Observed ==
    [pc |-> pc, console |-> console, calls |-> calls, decorator |-> decorator,
     exitStatus |-> exitStatus]

\* What a caller observes once a failed check was handled without any
\* diagnostic, callback or termination, before and after the return.
QuietFailure(at) ==
    [pc |-> at, console |-> <<>>, calls |-> <<>>,
     decorator |-> IF at = "returned"
                   THEN [has |-> TRUE,
                         env |-> Parse(ParseOperations, schema, Filtered0).value]
                   ELSE NoDecorator,
     exitStatus |-> -1]

\* What a caller observes of a passed check, before and after the return.
PassedOutcome(at) ==
    [pc |-> at, console |-> <<>>,
     calls |-> IF options.onSuccess THEN <<OnSuccessCall(processed)>> ELSE <<>>,
     decorator |-> IF at = "returned" THEN [has |-> TRUE, env |-> processed]
                   ELSE NoDecorator,
     exitStatus |-> -1]

\* C13: with onError a string other than 'exit', 'warn' or 'silent', env()
\* does not reject the options: after a failed check it emits no diagnostic,
\* does not terminate the process, raises nothing, invokes no callback, and
\* attaches the non-conformant candidate mapping and returns, which is what
\* 'silent' lets a caller observe; after a passed check it behaves as under
\* any other policy.
C13_UnrecognizedPolicyActsAsSilent ==
    /\ (checked = "fail" /\ PastDispatch /\ (IsUnrecognized \/ IsSilent)) =>
           /\ pc \in {"decorate", "returned"}
           /\ Observed = QuietFailure(pc)
           /\ ~Check(schema, processed)
    /\ (checked = "pass" /\ PastDispatch) =>
           /\ pc \in {"decorate", "returned"}
           /\ Observed = PassedOutcome(pc)
    /\ IsUnrecognized => pc # "thrown"

C13_Witness ==
    /\ pc = "returned"
    /\ options.onError = OnErrorMode("verbose")
    /\ options.onSuccess
    /\ checked = "fail"
    /\ decorator.has
    /\ decorator.env # EmptyObject
    /\ console = <<>>
    /\ calls = <<>>

====
